---- MODULE Spec2Model ----
(***************************************************************************)
(* Authorization front-end of the arc proxy: request classification        *)
(* (plugins/es/middleware.go), the enforcement filters validateACL,        *)
(* validateOp, validateIndices, and the user entity (types/user/user.go).  *)
(*                                                                         *)
(* A Go string is a sequence of one-character strings.  The placeholder    *)
(* "{index}" is written as the single symbol "{index}", so that a segment  *)
(* that merely contains the placeholder (<<"x", "{index}">>) differs from  *)
(* the segment that is the placeholder (<<"{index}">>).                    *)
(***************************************************************************)
EXTENDS Integers, Sequences, FiniteSets, TLC

VARIABLES pc, ctx, status, body, invoked, call, ret, prev

vars == <<pc, ctx, status, body, invoked, call, ret, prev>>

-----------------------------------------------------------------------------
(* Go standard library, as used by the source.                             *)

\* strings.Replace(s, old, new, -1) for a one-character old
RECURSIVE Replace(_, _, _)
Replace(s, old, new) ==
    IF s = <<>> THEN <<>>
    ELSE (IF Head(s) = old THEN new ELSE <<Head(s)>>) \o Replace(Tail(s), old, new)

\* strings.Split(s, sep) for a one-character sep: always at least one piece
RECURSIVE SplitFrom(_, _, _)
SplitFrom(s, sep, cur) ==
    IF s = <<>> THEN <<cur>>
    ELSE IF Head(s) = sep THEN <<cur>> \o SplitFrom(Tail(s), sep, <<>>)
    ELSE SplitFrom(Tail(s), sep, Append(cur, Head(s)))

Split(s, sep) == SplitFrom(s, sep, <<>>)

\* strings.TrimSpace(s)
RECURSIVE TrimLeft(_)
TrimLeft(s) == IF s # <<>> /\ Head(s) = " " THEN TrimLeft(Tail(s)) ELSE s

RECURSIVE TrimRight(_)
TrimRight(s) ==
    IF s # <<>> /\ s[Len(s)] = " " THEN TrimRight(SubSeq(s, 1, Len(s) - 1)) ELSE s

TrimSpace(s) == TrimRight(TrimLeft(s))

\* strings.Contains(s, sym) for a one-symbol sym
Contains(s, sym) == \E i \in 1..Len(s) : s[i] = sym

\* strings.HasPrefix(s, c) for a one-character c
HasPrefix(s, c) == s # <<>> /\ Head(s) = c

\* util.Contains(list, x)
ListContains(list, x) == \E i \in 1..Len(list) : list[i] = x

(* regexp.MatchString(pattern, s) on the syntax the patterns use: literal  *)
(* characters, ".", the postfix "*", the anchors "^" and "$", and "["      *)
(* (which, with no "]" in the alphabet, never closes).  regexp.Compile     *)
(* rejects a "*" with nothing to repeat, a "*" that follows a "*", and an  *)
(* unclosed "[".                                                           *)
RegexpValid(p) ==
    /\ ~Contains(p, "[")
    /\ \A i \in 1..Len(p) : p[i] = "*" => (i > 1 /\ p[i - 1] # "*")

\* whether pattern p from position k matches a prefix of s from position i
RECURSIVE MatchAt(_, _, _, _)
MatchAt(p, k, s, i) ==
    IF k > Len(p) THEN TRUE
    ELSE LET starred == k < Len(p) /\ p[k + 1] = "*"
             width == IF p[k] \in {"^", "$"} THEN 0 ELSE 1
             hit == CASE p[k] = "^" -> i = 1
                      [] p[k] = "$" -> i = Len(s) + 1
                      [] p[k] = "." -> i <= Len(s)
                      [] OTHER -> i <= Len(s) /\ p[k] = s[i]
         IN  IF starred
             THEN \/ MatchAt(p, k + 2, s, i)
                  \/ (width = 1 /\ hit /\ MatchAt(p, k, s, i + 1))
             ELSE hit /\ MatchAt(p, k + 1, s, i + width)

\* the (ok, err) pair of regexp.MatchString: an unanchored search
MatchString(p, s) ==
    IF ~RegexpValid(p) THEN [ok |-> FALSE, err |-> TRUE]
    ELSE [ok |-> \E i \in 1..(Len(s) + 1) : MatchAt(p, 1, s, i), err |-> FALSE]

-----------------------------------------------------------------------------
(* internal/types/user/user.go: the permission entity.                     *)
(* A Go slice is [isNil, elems]: a nil slice and an empty one differ.      *)

NilSlice == [isNil |-> TRUE, elems |-> <<>>]

Slice(seq) == [isNil |-> FALSE, elems |-> seq]

\* func (u *User) HasACL(acl acl.ACL) bool
RECURSIVE HasACLFrom(_, _)
HasACLFrom(acls, a) ==
    IF acls = <<>> THEN FALSE
    ELSE IF Head(acls) = a THEN TRUE
    ELSE HasACLFrom(Tail(acls), a)

HasACL(u, a) == HasACLFrom(u.ACLs.elems, a)

\* func (u *User) Can(op op.Operation) bool
RECURSIVE CanFrom(_, _)
CanFrom(ops, o) ==
    IF ops = <<>> THEN FALSE
    ELSE IF Head(ops) = o THEN TRUE
    ELSE CanFrom(Tail(ops), o)

Can(u, o) == CanFrom(u.Ops.elems, o)

\* the loop taking a pattern that does not compile as one that does not match
RECURSIVE CanAccessIndexFromSkipInvalid(_, _)
CanAccessIndexFromSkipInvalid(patterns, name) ==
    IF patterns = <<>> THEN [ok |-> FALSE, err |-> FALSE]
    ELSE LET m == MatchString(Head(patterns), name)
         IN  IF ~m.err /\ m.ok THEN [ok |-> TRUE, err |-> FALSE]
             ELSE CanAccessIndexFromSkipInvalid(Tail(patterns), name)

\* the loop of CanAccessIndex: the first pattern that fails to compile or
\* that matches ends it
RECURSIVE CanAccessIndexFrom(_, _)
CanAccessIndexFrom(patterns, name) ==
    IF patterns = <<>> THEN [ok |-> FALSE, err |-> FALSE]
    ELSE LET m == MatchString(Head(patterns), name)
         IN  IF m.err THEN [ok |-> FALSE, err |-> TRUE]
             ELSE IF m.ok THEN [ok |-> TRUE, err |-> FALSE]
             ELSE CanAccessIndexFrom(Tail(patterns), name)

\* func (u *User) CanAccessIndex(name string) (bool, error)
CanAccessIndex(u, name) == CanAccessIndexFrom(u.Indices.elems, name)

\* func (u *User) GetPatch() (map[string]interface{}, error)
PatchPut(patch, cond, key, val) ==
    IF cond THEN [k \in (DOMAIN patch) \cup {key} |-> IF k = key THEN val ELSE patch[k]]
    ELSE patch

\* GetPatch testing the collections for emptiness where the code tests for nil
GetPatchOmitEmpty(u) ==
    LET p0 == <<>>
        p1 == PatchPut(p0, u.UserId # "", "user_id", u.UserId)
        p2 == PatchPut(p1, u.Password # "", "password", u.Password)
        p3 == PatchPut(p2, u.IsAdmin # "nil", "is_admin", u.IsAdmin)
        p4 == PatchPut(p3, u.Email # "", "email", u.Email)
        p5 == PatchPut(p4, Len(u.ACLs.elems) # 0, "acls", u.ACLs)
        p6 == PatchPut(p5, Len(u.Ops.elems) # 0, "ops", u.Ops)
        p7 == PatchPut(p6, Len(u.Indices.elems) # 0, "indices", u.Indices)
    IN  p7

GetPatch(u) ==
    LET p0 == <<>>
        p1 == PatchPut(p0, u.UserId # "", "user_id", u.UserId)
        p2 == PatchPut(p1, u.Password # "", "password", u.Password)
        p3 == PatchPut(p2, u.IsAdmin # "nil", "is_admin", u.IsAdmin)
        p4 == PatchPut(p3, u.Email # "", "email", u.Email)
        p5 == PatchPut(p4, ~u.ACLs.isNil, "acls", u.ACLs)
        p6 == PatchPut(p5, ~u.Ops.isNil, "ops", u.Ops)
        p7 == PatchPut(p6, ~u.Indices.isNil, "indices", u.Indices)
    IN  p7

\* func New(userId, password string, opts ...Options) with the options
\* ACLs, Ops and Indices; without an Indices option the list stays []string{}
New(userId, password, acls, ops, indices) ==
    [UserId |-> userId, Password |-> password, IsAdmin |-> "false",
     ACLs |-> Slice(acls), Email |-> "", Ops |-> Slice(ops),
     Indices |-> Slice(indices)]

-----------------------------------------------------------------------------
(* plugins/es/middleware.go: the enforcement filters.                      *)
(* The request context is a function from the keys that are set.           *)

StatusBadRequest == 400
StatusUnauthorized == 401
StatusInternalServerError == 500

\* what a filter does with a request: the status and body it writes, or
\* next = TRUE when it calls h(w, r)
Pass == [status |-> 0, body |-> "", next |-> TRUE]

Stop(code, msg) == [status |-> code, body |-> msg, next |-> FALSE]

\* acl.FromContext, op.FromContext, permission.FromContext: err # nil when
\* the context holds no value for the key
FromContextErr(c, key) == key \notin DOMAIN c

\* ctx.Value(index.CtxKey) == nil
ValueIsNil(c, key) == key \notin DOMAIN c

\* the handler validateACL returns
validateACLResult(c) ==
    IF FromContextErr(c, "acl")
    THEN Stop(StatusInternalServerError, "An error occurred while validating request acl")
    ELSE IF FromContextErr(c, "permission")
    THEN Stop(StatusInternalServerError, "An error occurred while validating request acl")
    ELSE IF ~HasACL(c.permission, c.acl)
    THEN Stop(StatusUnauthorized, "permission does not have acl")
    ELSE Pass

\* validateOp without the return after the unauthorized response
validateOpResultNoReturn(c) ==
    IF FromContextErr(c, "op")
    THEN Stop(StatusInternalServerError, "An error occurred while validating request op")
    ELSE IF FromContextErr(c, "permission")
    THEN Stop(StatusInternalServerError, "An error occurred while validating request op")
    ELSE IF ~Can(c.permission, c.op)
    THEN [status |-> StatusUnauthorized, body |-> "permission does not have operation",
          next |-> TRUE]
    ELSE Pass

\* the handler validateOp returns
validateOpResult(c) ==
    IF FromContextErr(c, "op")
    THEN Stop(StatusInternalServerError, "An error occurred while validating request op")
    ELSE IF FromContextErr(c, "permission")
    THEN Stop(StatusInternalServerError, "An error occurred while validating request op")
    ELSE IF ~Can(c.permission, c.op)
    THEN Stop(StatusUnauthorized, "permission does not have operation")
    ELSE Pass

\* the inner loop letting the name through at the first pattern that matches
RECURSIVE IndexPatternsAny(_, _)
IndexPatternsAny(patterns, indexName) ==
    IF patterns = <<>> THEN Stop(StatusUnauthorized, "User is unauthorized to access index")
    ELSE LET pattern == Replace(Head(patterns), "*", <<".", "*">>)
             m == MatchString(pattern, indexName)
         IN  IF m.err
             THEN Stop(StatusUnauthorized, "invalid index pattern encountered")
             ELSE IF m.ok THEN Pass
             ELSE IndexPatternsAny(Tail(patterns), indexName)

\* the inner loop of validateIndices over reqPermission.Indices
RECURSIVE IndexPatterns(_, _)
IndexPatterns(patterns, indexName) ==
    IF patterns = <<>> THEN Pass
    ELSE LET pattern == Replace(Head(patterns), "*", <<".", "*">>)
             m == MatchString(pattern, indexName)
         IN  IF m.err
             THEN Stop(StatusUnauthorized, "invalid index pattern encountered")
             ELSE IF ~m.ok
             THEN Stop(StatusUnauthorized, "User is unauthorized to access index")
             ELSE IndexPatterns(Tail(patterns), indexName)

\* the outer loop of validateIndices over indices
RECURSIVE IndexLevel(_, _)
IndexLevel(indices, patterns) ==
    IF indices = <<>> THEN Pass
    ELSE LET r == IndexPatterns(patterns, Head(indices))
         IN  IF ~r.next THEN r ELSE IndexLevel(Tail(indices), patterns)

\* the cluster level branch of validateIndices
ClusterLevel(u) ==
    LET r == CanAccessIndex(u, <<"*">>)
    IN  IF r.err THEN Stop(StatusBadRequest, "regexp error")
        ELSE IF ~r.ok
        THEN Stop(StatusUnauthorized, "User is unauthorized to access cluster level routes")
        ELSE Pass

\* validateIndices answering a missing resource list with a denial
validateIndicesResultDenyMissing(c) ==
    IF FromContextErr(c, "permission")
    THEN Stop(StatusInternalServerError, "An error occurred while validating request indices")
    ELSE IF ValueIsNil(c, "index")
    THEN Stop(StatusUnauthorized, "Internal server error")
    ELSE IF Len(c.index) = 0 THEN ClusterLevel(c.permission)
    ELSE IndexLevel(c.index, c.permission.Indices.elems)

\* the handler validateIndices returns
validateIndicesResult(c) ==
    IF FromContextErr(c, "permission")
    THEN Stop(StatusInternalServerError, "An error occurred while validating request indices")
    ELSE IF ValueIsNil(c, "index")
    THEN Stop(StatusInternalServerError, "Internal server error")
    ELSE IF Len(c.index) = 0 THEN ClusterLevel(c.permission)
    ELSE IndexLevel(c.index, c.permission.Indices.elems)

-----------------------------------------------------------------------------
(* plugins/es/middleware.go: the classifier.                               *)

indexVar == "{index}"

\* a Go value, or the run-time panic of an index out of range
Value(v) == [panic |-> FALSE, val |-> v]

Panic == [panic |-> TRUE, val |-> <<>>]

\* the names of one path segment: split on commas, each piece trimmed
RECURSIVE TrimAll(_)
TrimAll(names) ==
    IF names = <<>> THEN <<>> ELSE <<TrimSpace(Head(names))>> \o TrimAll(Tail(names))

\* the loop of getIndexName: i runs below len(requestPath), the length of
\* the path string, and indexes endpointTokens (0-based i, 1-based sequences)
RECURSIVE IndexLoop(_, _, _, _)
IndexLoop(endpointTokens, requestPathTokens, requestPath, i) ==
    IF ~(i < Len(requestPath)) THEN Value(<<>>)
    ELSE IF ~(i < Len(endpointTokens)) THEN Panic
    ELSE IF endpointTokens[i + 1] = <<indexVar>>
    THEN Value(TrimAll(Split(requestPathTokens[i + 1], ",")))
    ELSE IndexLoop(endpointTokens, requestPathTokens, requestPath, i + 1)

\* func getIndexName(endpoint, requestPath string) []string
getIndexName(endpoint, requestPath) ==
    IF ~Contains(endpoint, indexVar) THEN Value(<<>>)
    ELSE LET endpointTokens == Split(endpoint, "/")
             requestPathTokens == Split(requestPath, "/")
         IN  IF Len(endpointTokens) # Len(requestPathTokens) THEN Value(<<>>)
             ELSE IndexLoop(endpointTokens, requestPathTokens, requestPath, 0)

\* the loop of matchKeywords over the path's tokens
RECURSIVE KeywordLoop(_, _, _)
KeywordLoop(api, tokens, count) ==
    IF tokens = <<>> THEN count = 0
    ELSE IF HasPrefix(Head(tokens), "_")
    THEN IF Head(tokens) \in api.keywords THEN TRUE
         ELSE KeywordLoop(api, Tail(tokens), count + 1)
    ELSE KeywordLoop(api, Tail(tokens), count)

\* func matchKeywords(api api, path string) bool
matchKeywords(api, path) == KeywordLoop(api, Split(path, "/"), 0)

\* getOp taking every POST for a write
getOpPostWrites(methods, method) ==
    CASE method = "GET" -> "read"
      [] method = "POST" -> "write"
      [] method = "PUT" -> "write"
      [] method = "HEAD" -> "read"
      [] method = "DELETE" -> "delete"
      [] OTHER -> "read"

\* func getOp(methods []string, method string) op.Operation
getOp(methods, method) ==
    CASE method = "GET" -> "read"
      [] method = "POST" -> IF ListContains(methods, "GET") THEN "read" ELSE "write"
      [] method = "PUT" -> "write"
      [] method = "HEAD" -> "read"
      [] method = "DELETE" -> "delete"
      [] OTHER -> "read"

\* the orders in which a range over a Go map can enumerate its entries
MapOrders(m) ==
    {o \in [1..Cardinality(m) -> m] : \A i, j \in DOMAIN o : o[i] = o[j] => i = j}

\* the inner loop of categorize over api.pathRegexps, enumerated in order;
\* an entry is <<endpoint, pattern>>
RECURSIVE EndpointLoop(_, _, _, _)
EndpointLoop(api, order, method, path) ==
    IF order = <<>> THEN [found |-> FALSE]
    ELSE LET endpoint == Head(order)[1]
             pattern == Head(order)[2]
             m == MatchString(pattern, path)
         IN  IF m.err THEN EndpointLoop(api, Tail(order), method, path)
             ELSE IF m.ok /\ ListContains(api.Methods, method) /\ matchKeywords(api, path)
             THEN [found |-> TRUE, acl |-> api.acl, op |-> getOp(api.Methods, method),
                   indices |-> getIndexName(endpoint, path)]
             ELSE EndpointLoop(api, Tail(order), method, path)

\* the outer loop of categorize over es.specs; orders[k] is the order in
\* which the k-th remaining api's map is enumerated
RECURSIVE SpecLoop(_, _, _, _)
SpecLoop(apis, orders, method, path) ==
    IF apis = <<>>
    THEN [found |-> TRUE, acl |-> "misc", op |-> "read", indices |-> Value(<<>>)]
    ELSE LET r == EndpointLoop(Head(apis), Head(orders), method, path)
         IN  IF r.found THEN r ELSE SpecLoop(Tail(apis), Tail(orders), method, path)

\* func (es *es) categorize(method, path string) (acl.ACL, op.Operation, []string)
categorize(specs, orders, method, path) ==
    LET r == SpecLoop(specs, orders, method, path)
    IN  [acl |-> r.acl, op |-> r.op, indices |-> r.indices]

-----------------------------------------------------------------------------
(* The inputs the model draws from.                                        *)

MaxPatterns == 2
MaxIndices == 2
MaxSegments == 3
MaxMethods == 2

SeqsUpTo(S, n) == UNION {[1..k -> S] : k \in 0..n}

\* stored index patterns: "*", ".*", "a.*", "b.*", "a*", "["
PatternSet ==
    {<<"*">>, <<".", "*">>, <<"a", ".", "*">>, <<"b", ".", "*">>, <<"a", "*">>, <<"[">>}

\* index names: "a", "ax", "bx"
NameSet == {<<"a">>, <<"a", "x">>, <<"b", "x">>}

Users ==
    {New("u", "p", acls, ops, indices) :
        acls \in {<<"misc">>, <<"misc", "search">>},
        ops \in {<<"write">>, <<"write", "read">>},
        indices \in SeqsUpTo(PatternSet, MaxPatterns)}

CtxKeys == {"acl", "op", "index", "permission"}

\* the request contexts a filter can be handed: each key set or not
Contexts ==
    {[k \in keys |-> CASE k = "acl" -> "search"
                       [] k = "op" -> "read"
                       [] k = "index" -> indices
                       [] k = "permission" -> u] :
        keys \in SUBSET CtxKeys,
        indices \in SeqsUpTo(NameSet, MaxIndices),
        u \in Users}

\* partially populated users handed to GetPatch
Deltas ==
    [UserId : {"", "u"}, Password : {"", "p"}, IsAdmin : {"nil", "true", "false"},
     ACLs : {NilSlice, Slice(<<>>), Slice(<<"search">>)},
     Email : {"", "e"},
     Ops : {NilSlice, Slice(<<>>), Slice(<<"read">>)},
     Indices : {NilSlice, Slice(<<>>), Slice(<<<<"*">>>>)}]

Methods == {"GET", "POST", "PUT", "HEAD", "DELETE", "OPTIONS", "PATCH"}

MethodLists == SeqsUpTo({"GET", "POST", "PUT", "DELETE"}, MaxMethods)

\* path segments: "", "a", "a, b", "_m"
Segments == {<<>>, <<"a">>, <<"a", ",", " ", "b">>, <<"_", "m">>}

RECURSIVE Join(_)
Join(segs) == IF segs = <<>> THEN <<>> ELSE <<"/">> \o Head(segs) \o Join(Tail(segs))

\* request paths: "", "/", "/a", "/a, b/_m", ...
RequestPaths == {Join(segs) : segs \in SeqsUpTo(Segments, MaxSegments)}

\* endpoint templates: "/{index}/_m", "/_m", "/{index}", "/_m/{index}",
\* and "/x{index}/_m", where the placeholder is only part of a segment
Endpoints ==
    {<<"/", indexVar, "/", "_", "m">>, <<"/", "_", "m">>, <<"/", indexVar>>,
     <<"/", "_", "m", "/", indexVar>>, <<"/", "x", indexVar, "/", "_", "m">>}

\* es.specs: a registry of two apis.  The first has the endpoints
\* "/{index}/_m" and "/_m/{type}", the second "/{index}/_s", "/_s" and an
\* entry whose pattern does not compile.
specs ==
    << [pathRegexps |->
          {<< <<"/", indexVar, "/", "_", "m">>, <<"^", "/", ".", "*", "/", "_", "m", "$">> >>,
           << <<"/", "_", "m", "/", "{type}">>, <<"^", "/", "_", "m", "/", ".", "*", "$">> >>},
        Methods |-> <<"GET", "PUT">>, acl |-> "indices",
        keywords |-> {<<"_", "m">>}],
       [pathRegexps |->
          {<< <<"/", indexVar, "/", "_", "s">>, <<"^", "/", ".", "*", "/", "_", "s", "$">> >>,
           << <<"/", "_", "s">>, <<"^", "/", "_", "s", "$">> >>,
           << <<"/", "_", "s", "/", "{type}">>, <<"[">> >>},
        Methods |-> <<"GET", "POST">>, acl |-> "search",
        keywords |-> {<<"_", "s">>}] >>

\* one enumeration order for each api's map
SpecOrders ==
    {o \in [1..Len(specs) -> UNION {MapOrders(specs[k].pathRegexps) : k \in 1..Len(specs)}] :
        \A k \in 1..Len(specs) : o[k] \in MapOrders(specs[k].pathRegexps)}

\* paths handed to categorize: "/a/_m", "/_m/_m", "/a/_s", "/_s", "/a",
\* "/a,b/_s", "/a/_x"
CatPaths ==
    {<<"/", "a", "/", "_", "m">>, <<"/", "_", "m", "/", "_", "m">>,
     <<"/", "a", "/", "_", "s">>, <<"/", "_", "s">>, <<"/", "a">>,
     <<"/", "a", ",", "b", "/", "_", "s">>, <<"/", "a", "/", "_", "x">>}

-----------------------------------------------------------------------------
(* The enforcement chain: each filter wraps the handler h it was given.    *)

Chain == <<"validateACL", "validateOp", "validateIndices", "handler">>

\* the handler a filter was composed with: the next stage of the chain
h(stage) == Chain[(CHOOSE i \in 1..Len(Chain) : Chain[i] = stage) + 1]

Init ==
    /\ pc = "idle" /\ ctx = <<>> /\ status = 0 /\ body = "" /\ invoked = <<>>
    /\ call = <<>> /\ ret = <<>> /\ prev = <<>>

\* a request reaches the head of the chain
Request ==
    /\ pc = "idle"
    /\ \E c \in Contexts : ctx' = c
    /\ pc' = Head(Chain)
    /\ status' = 0 /\ body' = "" /\ invoked' = <<>>
    /\ UNCHANGED <<call, ret, prev>>

\* a filter runs: it writes a response and returns, or calls h(w, r)
Serve(stage, r) ==
    /\ pc = stage
    /\ invoked' = Append(invoked, stage)
    /\ status' = r.status
    /\ body' = r.body
    /\ pc' = IF r.next THEN h(stage) ELSE "done"
    /\ UNCHANGED <<ctx, call, ret, prev>>

validateACL == Serve("validateACL", validateACLResult(ctx))

validateOp == Serve("validateOp", validateOpResult(ctx))

validateIndices == Serve("validateIndices", validateIndicesResult(ctx))

\* the downstream handler, which forwards the request
handler ==
    /\ pc = "handler"
    /\ invoked' = Append(invoked, "handler")
    /\ pc' = "done"
    /\ UNCHANGED <<ctx, status, body, call, ret, prev>>

\* the request is over
Respond ==
    /\ pc = "done"
    /\ pc' = "idle" /\ ctx' = <<>> /\ status' = 0 /\ body' = "" /\ invoked' = <<>>
    /\ UNCHANGED <<call, ret, prev>>

Next == Request \/ validateACL \/ validateOp \/ validateIndices \/ handler \/ Respond

Spec == Init /\ [][Next]_vars

-----------------------------------------------------------------------------------------------------------------------------------------------------------------------------------------------------------------------------
(* Properties of the enforcement chain.                                    *)

Last(seq) == seq[Len(seq)]

Ran(stage) == \E i \in 1..Len(invoked) : invoked[i] = stage

\* the filters let the request through to the downstream handler
Allowed == pc = "handler" \/ Ran("handler")

\* a pattern as a regular expression: it compiles and matches the name
RegexpMatches(pattern, name) ==
    LET m == MatchString(pattern, name) IN ~m.err /\ m.ok

\* a pattern as validateIndices reads it: every "*" rewritten to ".*" first
RewrittenMatches(pattern, name) ==
    RegexpMatches(Replace(pattern, "*", <<".", "*">>), name)

\* the values a filter reads from the request context
Required(stage) ==
    CASE stage = "validateACL" -> {"acl", "permission"}
      [] stage = "validateOp" -> {"op", "permission"}
      [] stage = "validateIndices" -> {"permission", "index"}

\* the capability a filter checks, stated over the entity's collections
Granted(stage, c) ==
    /\ Required(stage) \subseteq DOMAIN c
    /\ CASE stage = "validateACL" ->
              \E i \in 1..Len(c.permission.ACLs.elems) : c.permission.ACLs.elems[i] = c.acl
         [] stage = "validateOp" ->
              \E i \in 1..Len(c.permission.Ops.elems) : c.permission.Ops.elems[i] = c.op
         [] stage = "validateIndices" ->
              LET patterns == c.permission.Indices.elems
              IN  IF c.index = <<>>
                  THEN \E j \in 1..Len(patterns) :
                          /\ RegexpMatches(patterns[j], <<"*">>)
                          /\ \A k \in 1..(j - 1) : RegexpValid(patterns[k])
                  ELSE \A i \in 1..Len(c.index), j \in 1..Len(patterns) :
                          RewrittenMatches(patterns[j], c.index[i])

\* C1: the stages run in the order validateACL, validateOp, validateIndices,
\* handler; a stage is reached only when every stage before it passed its own
\* check, and a filter that wrote a denial or an error ends the request: no
\* later filter and not the downstream handler runs.
C1_ShortCircuit ==
    /\ Len(invoked) <= Len(Chain)
    /\ \A i \in 1..Len(invoked) : invoked[i] = Chain[i]
    /\ \A i \in 1..(Len(invoked) - 1) : Granted(invoked[i], ctx)
    /\ pc \in {"validateOp", "validateIndices", "handler"} =>
          /\ pc = Chain[Len(invoked) + 1]
          /\ \A i \in 1..Len(invoked) : Granted(invoked[i], ctx)
    /\ status # 0 =>
          /\ pc = "done"
          /\ Last(invoked) # "handler"
          /\ ~Granted(Last(invoked), ctx)

\* the Operation filter denied: the Resource filter and the handler never ran
C1_Witness ==
    /\ pc = "done"
    /\ status = StatusUnauthorized
    /\ invoked = <<"validateACL", "validateOp">>

\* C8: a filter that finds a value it requires absent from the context ends
\* the request with an internal error and does not call the next stage; an
\* unauthorized result is written only when the filter's values were present
\* and its capability check failed.
C8_MissingValueIsInternalError ==
    (invoked # <<>> /\ Last(invoked) # "handler") =>
        LET f == Last(invoked)
        IN  /\ ~(Required(f) \subseteq DOMAIN ctx) =>
                  (status = StatusInternalServerError /\ pc = "done")
            /\ status = StatusUnauthorized =>
                  (Required(f) \subseteq DOMAIN ctx /\ ~Granted(f, ctx))

\* the Resource filter found no resource list in the context
C8_Witness ==
    /\ invoked = <<"validateACL", "validateOp", "validateIndices">>
    /\ "index" \notin DOMAIN ctx
    /\ status = StatusInternalServerError

\* the Resource filter has decided a request that names resources
IndexLevelDecided ==
    /\ Ran("validateIndices")
    /\ Required("validateIndices") \subseteq DOMAIN ctx
    /\ ctx.index # <<>>

\* the Resource filter has decided a request that names no resource
ClusterLevelDecided ==
    /\ Ran("validateIndices")
    /\ Required("validateIndices") \subseteq DOMAIN ctx
    /\ ctx.index = <<>>

\* C2 as amended: with a non-empty resource list the Resource filter allows
\* the request if and only if every stored pattern, with each "*" rewritten
\* to ".*", matches every resource name; otherwise the result is unauthorized.
C2_AllRewrittenPatternsMatch ==
    IndexLevelDecided =>
        /\ Allowed <=>
              \A i \in 1..Len(ctx.index), j \in 1..Len(ctx.permission.Indices.elems) :
                  RewrittenMatches(ctx.permission.Indices.elems[j], ctx.index[i])
        /\ ~Allowed => status = StatusUnauthorized

\* patterns ["a.*", "b.*"] and resources ["ax"]: denied
C2_Witness ==
    /\ IndexLevelDecided
    /\ ctx.permission.Indices.elems = << <<"a", ".", "*">>, <<"b", ".", "*">> >>
    /\ ctx.index = << <<"a", "x">> >>
    /\ status = StatusUnauthorized

\* C2 as claimed: with a non-empty resource list the Resource filter allows
\* the request if and only if every stored pattern matches every resource
\* name; otherwise the result is unauthorized.
C2_AllPatternsMatch ==
    IndexLevelDecided =>
        /\ Allowed <=>
              \A i \in 1..Len(ctx.index), j \in 1..Len(ctx.permission.Indices.elems) :
                  RegexpMatches(ctx.permission.Indices.elems[j], ctx.index[i])
        /\ ~Allowed => status = StatusUnauthorized

\* C3: with an empty resource list the Resource filter allows the request if
\* and only if the stored patterns include "*"; every other entity gets the
\* unauthorized result that mentions cluster level routes.
C3_ClusterGate ==
    ClusterLevelDecided =>
        LET patterns == ctx.permission.Indices.elems
            wildcard == \E j \in 1..Len(patterns) : patterns[j] = <<"*">>
        IN  /\ Allowed <=> wildcard
            /\ ~wildcard =>
                  /\ status = StatusUnauthorized
                  /\ body = "User is unauthorized to access cluster level routes"

\* C10: when the Resource filter allows a request with a non-empty resource
\* list, CanAccessIndex returns true for every name of the list.
C10_FilterAtLeastAsStrict ==
    (IndexLevelDecided /\ Allowed) =>
        \A i \in 1..Len(ctx.index) :
            CanAccessIndex(ctx.permission, ctx.index[i]) = [ok |-> TRUE, err |-> FALSE]

-----
(* Calls of the user entity's methods and of the classifier's functions:   *)
(* call holds the function and its arguments, ret what it returned.        *)

\* the caller takes the result; prev keeps the last call of categorize
Return ==
    /\ pc = "called"
    /\ pc' = "idle"
    /\ prev' = IF call.fn = "categorize" THEN <<[call |-> call, ret |-> ret]>> ELSE <<>>
    /\ call' = <<>>
    /\ ret' = <<>>
    /\ UNCHANGED <<ctx, status, body, invoked>>

CallCanAccessIndex ==
    /\ pc = "idle"
    /\ \E u \in Users, name \in NameSet \cup {<<"*">>} :
        /\ call' = [fn |-> "CanAccessIndex", u |-> u, name |-> name]
        /\ ret' = CanAccessIndex(u, name)
    /\ pc' = "called"
    /\ UNCHANGED <<ctx, status, body, invoked, prev>>

CallGetPatch ==
    /\ pc = "idle"
    /\ \E u \in Deltas :
        /\ call' = [fn |-> "GetPatch", u |-> u]
        /\ ret' = GetPatch(u)
    /\ pc' = "called"
    /\ UNCHANGED <<ctx, status, body, invoked, prev>>

CanAccessIndexNext == CallCanAccessIndex \/ Return

CanAccessIndexSpec == Init /\ [][CanAccessIndexNext]_vars

GetPatchNext == CallGetPatch \/ Return

GetPatchSpec == Init /\ [][GetPatchNext]_vars

CallGetOp ==
    /\ pc = "idle"
    /\ \E methods \in MethodLists, method \in Methods :
        /\ call' = [fn |-> "getOp", methods |-> methods, method |-> method]
        /\ ret' = getOp(methods, method)
    /\ pc' = "called"
    /\ UNCHANGED <<ctx, status, body, invoked, prev>>

CallGetIndexName ==
    /\ pc = "idle"
    /\ \E endpoint \in Endpoints, requestPath \in RequestPaths :
        /\ call' = [fn |-> "getIndexName", endpoint |-> endpoint,
                    requestPath |-> requestPath]
        /\ ret' = getIndexName(endpoint, requestPath)
    /\ pc' = "called"
    /\ UNCHANGED <<ctx, status, body, invoked, prev>>

\* the range over api.pathRegexps enumerates in an order of the runtime's choosing
CallCategorize ==
    /\ pc = "idle"
    /\ \E method \in {"GET", "POST", "PUT"}, path \in CatPaths, orders \in SpecOrders :
        /\ call' = [fn |-> "categorize", method |-> method, path |-> path]
        /\ ret' = categorize(specs, orders, method, path)
    /\ pc' = "called"
    /\ UNCHANGED <<ctx, status, body, invoked, prev>>

GetOpNext == CallGetOp \/ Return

GetOpSpec == Init /\ [][GetOpNext]_vars

GetIndexNameNext == CallGetIndexName \/ Return

GetIndexNameSpec == Init /\ [][GetIndexNameNext]_vars

CategorizeNext == CallCategorize \/ Return

CategorizeSpec == Init /\ [][CategorizeNext]_vars

-----------------------------------------------------------------------------
(* Properties of the user entity.                                          *)

CalledFn(fn) == pc = "called" /\ call.fn = fn

\* C4 as amended: CanAccessIndex reads the stored patterns in order and stops
\* at the first that matches or does not compile.  It returns an error if and
\* only if a pattern that does not compile comes before every matching one,
\* and true if and only if some pattern matches and every pattern before it
\* compiles; when all patterns compile it returns true if and only if at
\* least one matches.
C4_ErrorBeforeFirstMatch ==
    CalledFn("CanAccessIndex") =>
        LET patterns == call.u.Indices.elems
            n == Len(patterns)
        IN  /\ ret.err <=>
                  \E j \in 1..n :
                      /\ ~RegexpValid(patterns[j])
                      /\ \A k \in 1..(j - 1) : ~RegexpMatches(patterns[k], call.name)
            /\ ret.ok <=>
                  \E j \in 1..n :
                      /\ RegexpMatches(patterns[j], call.name)
                      /\ \A k \in 1..(j - 1) : RegexpValid(patterns[k])
            /\ (\A j \in 1..n : RegexpValid(patterns[j])) =>
                  /\ ~ret.err
                  /\ ret.ok <=> \E j \in 1..n : RegexpMatches(patterns[j], call.name)

\* patterns ["a.*", "["] and the name "ax": true, and no error
C4_Witness ==
    /\ CalledFn("CanAccessIndex")
    /\ call.u.Indices.elems = << <<"a", ".", "*">>, <<"[">> >>
    /\ call.name = <<"a", "x">>
    /\ ret = [ok |-> TRUE, err |-> FALSE]

\* C4 as claimed: CanAccessIndex returns an error whenever any stored pattern
\* does not compile, wherever it is in the list and whether or not another
\* pattern matches; when all compile it returns true if and only if at least
\* one matches.
C4_ErrorOnAnyInvalid ==
    CalledFn("CanAccessIndex") =>
        LET patterns == call.u.Indices.elems
            n == Len(patterns)
        IN  /\ (\E j \in 1..n : ~RegexpValid(patterns[j])) => ret.err
            /\ (\A j \in 1..n : RegexpValid(patterns[j])) =>
                  /\ ~ret.err
                  /\ ret.ok <=> \E j \in 1..n : RegexpMatches(patterns[j], call.name)

PatchKeys == {"user_id", "password", "is_admin", "email", "acls", "ops", "indices"}

Field(u, key) ==
    CASE key = "user_id" -> u.UserId
      [] key = "password" -> u.Password
      [] key = "is_admin" -> u.IsAdmin
      [] key = "email" -> u.Email
      [] key = "acls" -> u.ACLs
      [] key = "ops" -> u.Ops
      [] key = "indices" -> u.Indices

\* a field holds something other than its default: a non-empty string, a set
\* admin flag, a collection that is not nil
NonDefault(u, key) ==
    CASE key \in {"user_id", "password", "email"} -> Field(u, key) # ""
      [] key = "is_admin" -> u.IsAdmin \in {"true", "false"}
      [] key \in {"acls", "ops", "indices"} -> ~Field(u, key).isNil

\* C9: the keys of the patch are exactly the fields of the delta that hold a
\* non-default value, an empty collection that is present included, and each
\* key maps to the delta's value.
C9_PatchOmission ==
    CalledFn("GetPatch") =>
        /\ DOMAIN ret = {key \in PatchKeys : NonDefault(call.u, key)}
        /\ \A key \in DOMAIN ret : ret[key] = Field(call.u, key)

\* a delta with only email set gives a patch with exactly the key email
C9_Witness ==
    /\ CalledFn("GetPatch")
    /\ call.u = [UserId |-> "", Password |-> "", IsAdmin |-> "nil", ACLs |-> NilSlice,
                 Email |-> "e", Ops |-> NilSlice, Indices |-> NilSlice]
    /\ DOMAIN ret = {"email"}

-----------------------------------------------------------------------------
(* Properties of the classifier.                                           *)

\* C7: GET and HEAD give read, PUT write, DELETE delete, POST read when the
\* accepted methods contain GET and write otherwise, any other method read.
C7_GetOpTable ==
    CalledFn("getOp") =>
        LET accepted == {call.methods[i] : i \in 1..Len(call.methods)}
        IN  /\ call.method \in {"GET", "HEAD"} => ret = "read"
            /\ call.method = "PUT" => ret = "write"
            /\ call.method = "DELETE" => ret = "delete"
            /\ call.method = "POST" => ret = (IF "GET" \in accepted THEN "read" ELSE "write")
            /\ call.method \notin {"GET", "HEAD", "PUT", "DELETE", "POST"} => ret = "read"

\* POST on a spec that accepts GET and POST is a read
C7_Witness ==
    /\ CalledFn("getOp")
    /\ call.methods = <<"GET", "POST">>
    /\ call.method = "POST"
    /\ ret = "read"

\* C6: getIndexName never fails; it returns the empty list when the endpoint
\* has no placeholder or the segment counts differ, and otherwise the names
\* of the path segment at the placeholder's position.
C6_GetIndexName ==
    CalledFn("getIndexName") =>
        LET et == Split(call.endpoint, "/")
            pt == Split(call.requestPath, "/")
            at == CHOOSE i \in 1..Len(et) :
                      /\ Contains(et[i], indexVar)
                      /\ \A k \in 1..(i - 1) : ~Contains(et[k], indexVar)
        IN  /\ ~ret.panic
            /\ IF ~Contains(call.endpoint, indexVar) \/ Len(et) # Len(pt)
               THEN ret.val = <<>>
               ELSE ret.val = TrimAll(Split(pt[at], ","))

\* C5: two calls of categorize with the same method and path return the same
\* (ACL, Operation, resource list), whatever the order in which the maps of
\* path patterns are enumerated.
C5_Deterministic ==
    (CalledFn("categorize") /\ prev # <<>> /\ prev[1].call = call) => prev[1].ret = ret

====
